---------------------------- MODULE Spec2Model ----------------------------
(***************************************************************************)
(* Model of prediction_url_cot_claude.py: query generation and parsing,    *)
(* search, concurrent batched fetching, extraction, document selection.    *)
(*                                                                         *)
(* Strings are sequences of tokens.  A token is one character ("a", "1",   *)
(* ".", " ", the double quote, the newline) or one whole tag ("<queries>", *)
(* "</queries>", "<t>"): angle brackets occur only as part of a whole tag. *)
(*                                                                         *)
(* A document text is abstracted to [words, canon]: the text consists of   *)
(* the first `words` whitespace-delimited words of its source, and canon   *)
(* says whether it equals those words joined by single spaces (so the      *)
(* empty string is [words |-> 0, canon |-> TRUE], and a whitespace-only    *)
(* string is [words |-> 0, canon |-> FALSE]).                              *)
(***************************************************************************)
EXTENDS Integers, Sequences, FiniteSets, TLC

VARIABLES
    \* ---- query generation (fetch_additional_information, lines 370-384)
    prompt,        \* the question
    num_queries,   \* target query count N
    callRaises,    \* client.messages.create raises
    response,      \* response.content[0].text when the call returns
    queries,       \* the query list handed to the search stage
    parseRaised,   \* parser_query_response raised
    qpc,           \* "start" | "done"
    \* ---- select_docs (lines 324-352)
    sel_in,        \* argument docs
    sel_params,    \* [n_docs, min_words, max_words]
    sel_out,       \* returned list
    spc,           \* "start" | "done"
    \* ---- acquisition (fetch_additional_information, lines 386-426)
    source_links,  \* the pre-supplied source map, as its list of items
    num_urls,      \* argument num_urls
    fpc,           \* position of the main thread
    qi,            \* get_urls_from_queries: index of the next query
    results,       \* get_urls_from_queries: results
    urls,          \* the deduplicated url list
    si,            \* process_in_batches: position of the next url to submit
    ci,            \* extract_texts: position of the next (future, url) pair
    fut,           \* per url: state of its future
    nreq,          \* per url: GET requests process_in_batches has submitted
    docs,          \* extracted_texts / docs
    filtered_docs, \* the argument handed to select_docs
    selected_docs, \* what select_docs returned
    info           \* the formatted articles

qvars == <<prompt, num_queries, callRaises, response, queries, parseRaised, qpc>>
svars == <<sel_in, sel_params, sel_out, spc>>
fvars == <<source_links, num_urls, fpc, qi, results, urls, si, ci, fut, nreq,
           docs, filtered_docs, selected_docs, info>>
vars == <<qvars, svars, fvars>>

----------------------------------------------------------------------------
(* Bounds *)

MaxLen == 6        \* pieces in a model response
MaxDocs == 5       \* documents in an argument of select_docs
MaxQueries == 2    \* queries handed to the search stage
MaxUrls == 6       \* distinct urls the search engine knows
MaxLinks == 4      \* items of a pre-supplied source map

----------------------------------------------------------------------------
(* Program constants *)

NUM_QUERIES == 5
NUM_URLS_PER_QUERY == 3
HTTP_MAX_RETIES == 2
MIN_WORDS == 100
MAX_DOC_WORDS == 10000
N_DOCS == 5
SelectMinWords == 60      \* line 339
SelectCutoff == 4         \* line 341
SelectMaxWords == 10000   \* line 349
Window == 5               \* line 261, the default extract_texts uses

----------------------------------------------------------------------------
(* Strings *)

OPEN == "<queries>"
CLOSE == "</queries>"
NL == "\n"
QUOTE == "\""
TAG == "<t>"

\* Index of the first occurrence of token t in s, 0 when there is none.
Find(s, t) ==
    IF \E i \in 1..Len(s) : s[i] = t
    THEN CHOOSE i \in 1..Len(s) : s[i] = t /\ \A j \in 1..(i - 1) : s[j] # t
    ELSE 0

Contains(s, t) == Find(s, t) # 0

\* s[from:] in Python terms (1-based from).
Drop(s, from) == SubSeq(s, from, Len(s))

\* str.split(t) for a one-token separator: the list of parts.
RECURSIVE Split(_, _)
Split(s, t) ==
    LET i == Find(s, t)
    IN  IF i = 0 THEN <<s>>
        ELSE <<SubSeq(s, 1, i - 1)>> \o Split(Drop(s, i + 1), t)

\* str.strip(): whitespace removed at both ends.
IsSpace(c) == c \in {" ", NL}

RECURSIVE LStrip(_)
LStrip(s) == IF s # <<>> /\ IsSpace(Head(s)) THEN LStrip(Tail(s)) ELSE s

RECURSIVE RStrip(_)
RStrip(s) ==
    IF s # <<>> /\ IsSpace(s[Len(s)]) THEN RStrip(SubSeq(s, 1, Len(s) - 1)) ELSE s

Strip(s) == RStrip(LStrip(s))

\* str.replace(t, ''): every occurrence of token t removed.
Remove(s, t) == SelectSeq(s, LAMBDA c : c # t)

\* Index of the first occurrence of the two-character separator ". ", else 0.
FindDotSpace(s) ==
    IF \E i \in 1..(Len(s) - 1) : s[i] = "." /\ s[i + 1] = " "
    THEN CHOOSE i \in 1..(Len(s) - 1) :
            /\ s[i] = "." /\ s[i + 1] = " "
            /\ \A j \in 1..(i - 1) : ~(s[j] = "." /\ s[j + 1] = " ")
    ELSE 0

\* ". ".join(query.split(". ")[1:]): what follows the first ". ", or "" when
\* the separator does not occur.
AfterFirstDotSpace(s) ==
    LET i == FindDotSpace(s)
    IN  IF i = 0 THEN <<>> ELSE Drop(s, i + 2)

IsDigit(c) == c = "1"

\* re.sub(r'<[^>]*>', '', query)
StripTags(s) == SelectSeq(s, LAMBDA c : c \notin {TAG, OPEN, CLOSE})

\* xs[::2]
RECURSIVE EveryOther(_)
EveryOther(xs) ==
    IF Len(xs) = 0 THEN <<>>
    ELSE IF Len(xs) = 1 THEN xs
    ELSE <<xs[1]>> \o EveryOther(Drop(xs, 3))

----------------------------------------------------------------------------
(* parser_query_response *)

\* Raising when either tag is absent (the mutant of ParserRaises).
ParserRaisesEitherTag(resp) == ~Contains(resp, OPEN) \/ ~Contains(resp, CLOSE)

\* response.split("<queries>")[1] raises IndexError when the tag is absent.
ParserRaises(resp) == ~Contains(resp, OPEN)

\* response.split("<queries>")[1].split("</queries>")[0].split("\n")
RawLines(resp) == Split(Split(Split(resp, OPEN)[2], CLOSE)[1], NL)

\* [query.strip() for query in queries if query.strip()]
ParsedQueries(resp) ==
    LET kept == SelectSeq(RawLines(resp), LAMBDA q : Strip(q) # <<>>)
    IN  [ i \in 1..Len(kept) |-> Strip(kept[i]) ]

\* the loop body of lines 155-159
Enhance(query) ==
    LET q1 == IF IsDigit(query[1]) THEN AfterFirstDotSpace(query) ELSE query
    IN  Remove(q1, QUOTE)

\* Halving from 2N entries on (the mutant of Halve).
HalveAtLeast(enhanced, n) ==
    IF Len(enhanced) >= n * 2 THEN EveryOther(enhanced) ELSE enhanced

\* lines 161-162
Halve(enhanced, n) ==
    IF Len(enhanced) = n * 2 THEN EveryOther(enhanced) ELSE enhanced

Finalise(query) == StripTags(Remove(query, QUOTE))

\* lines 153-159
EnhancedQueries(resp) ==
    LET parsed == ParsedQueries(resp)
    IN  [ i \in 1..Len(parsed) |-> Enhance(parsed[i]) ]

parser_query_response(resp, n) ==
    LET enhanced == Halve(EnhancedQueries(resp), n)
    IN  [ i \in 1..Len(enhanced) |-> Finalise(enhanced[i]) ]

----------------------------------------------------------------------------
(* Documents and select_docs *)

\* Document(text=..., url=...); kind tells a Document from any other object.
Doc(u, t) == [kind |-> "Document", url |-> u, text |-> t]

Text(w, c) == [words |-> w, canon |-> c]

EmptyText == Text(0, TRUE)

Min(a, b) == IF a < b THEN a ELSE b

Range(xs) == { xs[i] : i \in 1..Len(xs) }

\* len(text.split())
count_words(t) == t.words

\* " ".join(text.split()[:k])
TruncateTextOffByOne(t, k) == Text(Min(t.words, k + 1), TRUE)

TruncateText(t, k) == Text(Min(t.words, k), TRUE)

\* line 332: {doc.url: count_words(doc.text) for doc in docs}
word_counts(ds) ==
    [ u \in { d.url : d \in Range(ds) } |->
        count_words((CHOOSE d \in Range(ds) : d.url = u).text) ]

\* One step of a stable sort by ascending count (the mutant of InsertDesc).
RECURSIVE InsertAsc(_, _, _)
InsertAsc(u, sorted, wc) ==
    IF sorted = <<>> THEN <<u>>
    ELSE IF wc[Head(sorted)] <= wc[u]
         THEN <<Head(sorted)>> \o InsertAsc(u, Tail(sorted), wc)
         ELSE <<u>> \o sorted

\* One step of a stable sort by descending count: u goes after every element
\* whose count is at least its own.
RECURSIVE InsertDesc(_, _, _)
InsertDesc(u, sorted, wc) ==
    IF sorted = <<>> THEN <<u>>
    ELSE IF wc[Head(sorted)] >= wc[u]
         THEN <<Head(sorted)>> \o InsertDesc(u, Tail(sorted), wc)
         ELSE <<u>> \o sorted

\* line 335: sorted(word_counts, key=word_counts.get, reverse=True); the keys
\* are visited in insertion order, which is the order of docs.
RECURSIVE SortFrom(_, _, _)
SortFrom(keys, sorted, wc) ==
    IF keys = <<>> THEN sorted
    ELSE SortFrom(Tail(keys), InsertDesc(Head(keys), sorted, wc), wc)

sorted_docs(ds) ==
    SortFrom([ i \in 1..Len(ds) |-> ds[i].url ], <<>>, word_counts(ds))

\* lines 337-342
RECURSIVE Walk(_, _, _)
Walk(sorted, wc, acc) ==
    IF sorted = <<>> THEN acc
    ELSE LET u == Head(sorted)
             acc2 == IF wc[u] >= SelectMinWords THEN Append(acc, u) ELSE acc
         IN  IF Len(acc2) = SelectCutoff THEN acc2
             ELSE Walk(Tail(sorted), wc, acc2)

selected_urls(ds) == Walk(sorted_docs(ds), word_counts(ds), <<>>)

\* The selected documents in the order of acceptance (the mutant of SelectedDocs).
SelectedDocsWalkOrder(ds, us) ==
    [ i \in 1..Len(us) |-> CHOOSE d \in Range(ds) : d.url = us[i] ]

\* line 345: [doc for doc in docs if doc.url in selected_urls]
SelectedDocs(ds, us) == SelectSeq(ds, LAMBDA d : d.url \in Range(us))

\* lines 348-350
CapDoc(d, wc) ==
    IF wc[d.url] > SelectMaxWords
    THEN [d EXCEPT !.text = TruncateText(d.text, SelectMaxWords)]
    ELSE d

select_docs(ds, n_docs, min_words, max_words) ==
    LET wc == word_counts(ds)
        chosen == SelectedDocs(ds, selected_urls(ds))
    IN  [ i \in 1..Len(chosen) |-> CapDoc(chosen[i], wc) ]

----------------------------------------------------------------------------
(* multi_queries and the try/except around it *)

\* The prompt put first (the mutant of multi_queries).
multi_queries_prepend(p, resp, n) == <<p>> \o parser_query_response(resp, n)

\* lines 143-146: the parsed queries followed by the prompt
multi_queries(p, resp, n) == Append(parser_query_response(resp, n), p)

\* line 384
FallbackQueries(p) == <<p>>

Pieces ==
    { <<OPEN>>, <<CLOSE>>, <<NL>>, <<"a">>, <<"1", ".", " ">>, <<QUOTE, TAG>> }

RECURSIVE Flatten(_)
Flatten(ps) == IF ps = <<>> THEN <<>> ELSE Head(ps) \o Flatten(Tail(ps))

\* A model response: at most MaxLen pieces, concatenated.
PieceLists == UNION { [1..k -> Pieces] : k \in 0..MaxLen }

\* The questions: the second one would change under the parser's clean-up.
Questions == { <<"a">>, <<"1", ".", " ", "a", QUOTE>> }

NumQueriesChoices == {1, 2}

FetchIdle ==
    /\ source_links = <<>>
    /\ num_urls = NUM_URLS_PER_QUERY
    /\ fpc = "idle"
    /\ qi = 1
    /\ results = <<>>
    /\ urls = <<>>
    /\ si = 1
    /\ ci = 1
    /\ fut = <<>>
    /\ nreq = <<>>
    /\ docs = <<>>
    /\ filtered_docs = <<>>
    /\ selected_docs = <<>>
    /\ info = <<>>

SelectIdle ==
    /\ sel_in = <<>>
    /\ sel_params = <<>>
    /\ sel_out = <<>>
    /\ spc = "idle"

InitQuery ==
    /\ prompt \in Questions
    /\ num_queries \in NumQueriesChoices
    /\ \/ callRaises = TRUE /\ response = <<>>
       \/ callRaises = FALSE /\ \E ps \in PieceLists : response = Flatten(ps)
    /\ queries = <<>>
    /\ parseRaised = FALSE
    /\ qpc = "start"
    /\ SelectIdle
    /\ FetchIdle

\* lines 372-381: the model call returns and the response parses
QueriesGenerated ==
    /\ qpc = "start"
    /\ ~callRaises
    /\ ~ParserRaises(response)
    /\ queries' = multi_queries(prompt, response, num_queries)
    /\ qpc' = "done"
    /\ UNCHANGED <<prompt, num_queries, callRaises, response, parseRaised, svars, fvars>>

\* lines 382-384: the model call or the parser raises
QueriesFallback ==
    /\ qpc = "start"
    /\ callRaises \/ ParserRaises(response)
    /\ parseRaised' = (~callRaises /\ ParserRaises(response))
    /\ queries' = FallbackQueries(prompt)
    /\ qpc' = "done"
    /\ UNCHANGED <<prompt, num_queries, callRaises, response, svars, fvars>>

NextQuery == QueriesGenerated \/ QueriesFallback

SpecQuery == InitQuery /\ [][NextQuery]_vars

----------------------------------------------------------------------------
(* select_docs as a function of its arguments *)

TextPool ==
    { Text(59, TRUE), Text(60, TRUE), Text(500, FALSE), Text(5000, TRUE),
      Text(10000, FALSE), Text(10001, FALSE) }

\* Argument lists: pairwise distinct urls, the url of a document is its
\* position in the list.
DocLists ==
    UNION { [1..k -> TextPool] : k \in 0..MaxDocs }

SelectParams ==
    { [n_docs |-> n, min_words |-> m[1], max_words |-> m[2]] :
        n \in {1, N_DOCS}, m \in { <<MIN_WORDS, MAX_DOC_WORDS>>, <<10, 100>> } }

QueryIdle ==
    /\ prompt = <<>>
    /\ num_queries = NUM_QUERIES
    /\ callRaises = FALSE
    /\ response = <<>>
    /\ queries = <<>>
    /\ parseRaised = FALSE
    /\ qpc = "idle"

InitSelect ==
    /\ \E ts \in DocLists : sel_in = [ i \in 1..Len(ts) |-> Doc(i, ts[i]) ]
    /\ sel_params \in SelectParams
    /\ sel_out = <<>>
    /\ spc = "start"
    /\ QueryIdle
    /\ FetchIdle

SelectDocs ==
    /\ spc = "start"
    /\ sel_out' = select_docs(sel_in, sel_params.n_docs, sel_params.min_words,
                              sel_params.max_words)
    /\ spc' = "done"
    /\ UNCHANGED <<sel_in, sel_params, qvars, fvars>>

NextSelect == SelectDocs

SpecSelect == InitSelect /\ [][NextSelect]_vars

----------------------------------------------------------------------------
(* Acquisition: search, batched concurrent fetch, extraction, selection *)

\* Urls are numbered; a search returns at most NUM_URLS_PER_QUERY consecutive
\* urls that start at a url already seen or at the first unseen one.
Seen(rs) == IF rs = <<>> THEN 0
            ELSE CHOOSE m \in Range(rs) : \A x \in Range(rs) : x <= m

\* search_google: the result lists a query may get (lines 180-190).
SearchResults(rs) ==
    { [ i \in 1..k |-> a + i - 1 ] :
        a \in 1..(Seen(rs) + 1),
        k \in 0..NUM_URLS_PER_QUERY } \cap Seq(1..MaxUrls)

\* list(set(results)), lines 209 and 396; the order of a set is unspecified
\* and nothing below depends on which url comes first: ascending is taken.
RECURSIVE Ascending(_)
Ascending(S) ==
    IF S = {} THEN <<>>
    ELSE LET m == CHOOSE x \in S : \A y \in S : x <= y
         IN  <<m>> \o Ascending(S \ {m})

unique_results(rs) == Ascending(Range(rs))

\* Page contents, by what extract_text makes of them (lines 218-232):
\* "article" and "blank" give a Document, "broken" makes readability raise.
HtmlContents == { "article", "blank", "broken" }

ExtractRaises(content) == content = "broken"

\* extract_text without num_words: " ".join(text.split()), url ""
extract_text(content) ==
    Doc("", IF content = "article" THEN Text(500, TRUE) ELSE EmptyText)

\* What extract_text_from_pdf returns (lines 237-256): a Document, the
\* ValueError object of line 242, or None after any exception.
NoneValue == [kind |-> "None"]
ValueErrorObject == [kind |-> "ValueError"]
PdfResults ==
    { NoneValue, ValueErrorObject,
      [kind |-> "Document", text |-> EmptyText],
      [kind |-> "Document", text |-> Text(10001, FALSE)] }

\* How a GET in a worker ends: a response (status 200 html, status 200 pdf
\* by suffix or magic number, another status) or an exception.
FetchOutcomes ==
    { "html200", "pdf200", "non200", "TooManyRedirects", "RequestException" }

FetchRaised(f) == f \in { "TooManyRedirects", "RequestException" }

\* doc.url = url (lines 303 and 406)
SetUrl(d, u) == [ x \in DOMAIN d \cup {"url"} |-> IF x = "url" THEN u ELSE d[x] ]

\* range(0, len(urls), window) and urls[i : i + window], 1-based positions
BatchOf(pos) == ((pos - 1) \div Window) + 1
BatchStart(pos) == (BatchOf(pos) - 1) * Window + 1
BatchEnd(pos) == Min(BatchOf(pos) * Window, Len(urls))

\* Not waiting for a pending future (the mutant of MustWait).
MustWaitNever(f) == FALSE

\* future.result() blocks until the future is done (line 296).
MustWait(f) == f = "inflight"

\* Keeping documents with empty text (the mutant of FilterDocs).
FilterDocsKeepEmpty(ds) ==
    SelectSeq(ds, LAMBDA d : d.kind # "None" /\ "text" \in DOMAIN d)

\* lines 410 and 413: drop None, then keep what has a non-empty text
FilterDocs(ds) ==
    SelectSeq(ds, LAMBDA d :
        d.kind # "None" /\ "text" \in DOMAIN d /\ d.text # EmptyText)

\* lines 419-424
Format(ds) ==
    [ i \in 1..Len(ds) |->
        [article |-> i - 1, url |-> ds[i].url, content |-> ds[i].text] ]

\* islice(source_links.items(), num_urls or len(source_links))
LinkLimit == Min(IF num_urls # 0 THEN num_urls ELSE Len(source_links),
                 Len(source_links))

SourceMaps ==
    UNION { [1..k -> HtmlContents] : k \in 0..MaxLinks }

\* The query lists the query stage hands over: some generated queries, then
\* the question.
QueryLists ==
    { [ i \in 1..k |-> IF i = k THEN <<"a">> ELSE <<"a", "a">> ] :
        k \in 1..MaxQueries }

InitFetch ==
    /\ prompt = <<"a">>
    /\ num_queries = NUM_QUERIES
    /\ callRaises = FALSE
    /\ response = <<>>
    /\ queries \in QueryLists
    /\ parseRaised = FALSE
    /\ qpc = "done"
    /\ SelectIdle
    /\ \E cs \in SourceMaps :
          source_links = [ i \in 1..Len(cs) |-> [url |-> i, content |-> cs[i]] ]
    /\ num_urls \in IF source_links = <<>> THEN {NUM_URLS_PER_QUERY}
                    ELSE {0, NUM_URLS_PER_QUERY}
    /\ fpc = "acquire"
    /\ qi = 1
    /\ results = <<>>
    /\ urls = <<>>
    /\ si = 1
    /\ ci = 1
    /\ fut = [ u \in 1..MaxUrls |-> "none" ]
    /\ nreq = [ u \in 1..MaxUrls |-> 0 ]
    /\ docs = <<>>
    /\ filtered_docs = <<>>
    /\ selected_docs = <<>>
    /\ info = <<>>

\* get_urls_from_queries, one query (lines 198-208): the search raises and
\* is passed over, or its urls are appended.
SearchQuery ==
    /\ fpc = "acquire"
    /\ source_links = <<>>
    /\ qi <= Len(queries)
    /\ \/ results' = results
       \/ \E r \in SearchResults(results) : r # <<>> /\ results' = results \o r
    /\ qi' = qi + 1
    /\ UNCHANGED <<qvars, svars, source_links, num_urls, fpc, urls, si, ci, fut,
                   nreq, docs, filtered_docs, selected_docs, info>>

\* lines 209-210, 396, and the start of extract_texts: with no url there is
\* no batch and extract_texts returns [].
UniqueUrls ==
    /\ fpc = "acquire"
    /\ source_links = <<>>
    /\ qi > Len(queries)
    /\ urls' = unique_results(results)
    /\ results' = <<>>
    /\ fpc' = IF urls' = <<>> THEN "select" ELSE "submit"
    /\ si' = 1
    /\ UNCHANGED <<qvars, svars, source_links, num_urls, qi, ci, fut, nreq, docs,
                   filtered_docs, selected_docs, info>>

\* process_in_batches, one url of the batch (lines 272-284): attempt 0 is
\* below retries, executor.submit returns a future and the loop breaks;
\* after the last url of the batch the generator yields (line 285).
Submit ==
    /\ fpc = "submit"
    /\ LET u == urls[si]
       IN  /\ 0 < HTTP_MAX_RETIES
           /\ fut' = [fut EXCEPT ![u] = "inflight"]
           /\ nreq' = [nreq EXCEPT ![u] = @ + 1]
    /\ IF si = BatchEnd(si)
       THEN fpc' = "collect" /\ ci' = BatchStart(si) /\ si' = si
       ELSE fpc' = fpc /\ ci' = ci /\ si' = si + 1
    /\ UNCHANGED <<qvars, svars, source_links, num_urls, qi, results, urls, docs,
                   filtered_docs, selected_docs, info>>

\* A worker thread finishes session.get for a url.
Complete ==
    \E u \in 1..MaxUrls :
        /\ fut[u] = "inflight"
        /\ \E o \in FetchOutcomes : fut' = [fut EXCEPT ![u] = o]
        /\ UNCHANGED <<qvars, svars, source_links, num_urls, fpc, qi, results, urls,
                       si, ci, nreq, docs, filtered_docs, selected_docs, info>>

\* The main thread moves on from position ci: the next pair of the batch,
\* the next batch (the generator resumes), or the end of extract_texts.
Advance ==
    IF ci < BatchEnd(ci)
    THEN fpc' = "collect" /\ ci' = ci + 1 /\ si' = si
    ELSE IF ci < Len(urls)
         THEN fpc' = "submit" /\ si' = ci + 1 /\ ci' = ci
         ELSE fpc' = "select" /\ si' = si /\ ci' = ci

\* extract_texts, one (future, url) pair that yields no PDF download
\* (lines 292-307): the future raised, the status is not 200, or the page is
\* HTML and extract_text returns a Document or raises.
Collect ==
    /\ fpc = "collect"
    /\ LET u == urls[ci]
       IN  /\ ~MustWait(fut[u])
           /\ fut[u] # "pdf200"
           /\ fut' = [fut EXCEPT ![u] =
                        IF FetchRaised(@) THEN "failed"
                        ELSE IF @ = "inflight" THEN @ ELSE "consumed"]
           /\ IF fut[u] = "html200"
              THEN \E content \in HtmlContents :
                      docs' = IF ExtractRaises(content) THEN docs
                              ELSE Append(docs, SetUrl(extract_text(content), u))
              ELSE docs' = docs
    /\ Advance
    /\ UNCHANGED <<qvars, svars, source_links, num_urls, qi, results, urls, nreq,
                   filtered_docs, selected_docs, info>>

\* extract_texts, a pair whose response is a PDF (lines 299-300): the main
\* thread downloads the url again (line 238).
PdfDownload ==
    /\ fpc = "collect"
    /\ LET u == urls[ci]
       IN  /\ fut[u] = "pdf200"
           /\ fut' = [fut EXCEPT ![u] = "consumed"]
    /\ fpc' = "pdf"
    /\ UNCHANGED <<qvars, svars, source_links, num_urls, qi, results, urls, si, ci,
                   nreq, docs, filtered_docs, selected_docs, info>>

\* extract_text_from_pdf returns (lines 239-256), then lines 303-307:
\* doc.url = url raises on None and the pair is passed over; a Document or
\* the ValueError object gets the url and is appended.
PdfExtracted ==
    /\ fpc = "pdf"
    /\ \E r \in PdfResults :
          docs' = IF r = NoneValue THEN docs
                  ELSE Append(docs, SetUrl(r, urls[ci]))
    /\ Advance
    /\ UNCHANGED <<qvars, svars, source_links, num_urls, qi, results, urls, fut,
                   nreq, filtered_docs, selected_docs, info>>

\* lines 403-407, one item of the source map, whose extraction returns a
\* Document.
ExtractLink ==
    /\ fpc = "acquire"
    /\ source_links # <<>>
    /\ qi <= LinkLimit
    /\ ~ExtractRaises(source_links[qi].content)
    /\ docs' = Append(docs, SetUrl(extract_text(source_links[qi].content),
                                   source_links[qi].url))
    /\ qi' = qi + 1
    /\ fpc' = IF qi = LinkLimit THEN "select" ELSE fpc
    /\ UNCHANGED <<qvars, svars, source_links, num_urls, results, urls, si, ci, fut,
                   nreq, filtered_docs, selected_docs, info>>

\* line 405 outside any try: extract_text raises and so does
\* fetch_additional_information.
ExtractLinkRaises ==
    /\ fpc = "acquire"
    /\ source_links # <<>>
    /\ qi <= LinkLimit
    /\ ExtractRaises(source_links[qi].content)
    /\ fpc' = "raised"
    /\ UNCHANGED <<qvars, svars, source_links, num_urls, qi, results, urls, si, ci,
                   fut, nreq, docs, filtered_docs, selected_docs, info>>

\* lines 409-426
FilterAndSelect ==
    /\ fpc = "select"
    /\ filtered_docs' = FilterDocs(docs)
    /\ selected_docs' = select_docs(filtered_docs', N_DOCS, MIN_WORDS, MAX_DOC_WORDS)
    /\ info' = Format(selected_docs')
    /\ fpc' = "done"
    /\ UNCHANGED <<qvars, svars, source_links, num_urls, qi, results, urls, si, ci,
                   fut, nreq, docs>>

NextFetch ==
    \/ SearchQuery
    \/ UniqueUrls
    \/ Submit
    \/ Complete
    \/ Collect
    \/ PdfDownload
    \/ PdfExtracted
    \/ ExtractLink
    \/ ExtractLinkRaises
    \/ FilterAndSelect

SpecFetch == InitFetch /\ [][NextFetch]_vars

----------------------------------------------------------------------------
(* Claims about query generation, under SpecQuery *)

\* C1: whatever the outcome of query generation, the query list handed to
\* the search stage is non-empty and ends with the question; when the model
\* call or the parser raises it is exactly the one-element list of the question.
C1_QueriesEndWithQuestion ==
    qpc = "done" =>
        /\ Len(queries) >= 1
        /\ queries[Len(queries)] = prompt
        /\ (callRaises \/ ~(\E i \in 1..Len(response) : response[i] = OPEN))
              => queries = <<prompt>>

C1_Witness ==
    /\ qpc = "done"
    /\ ~callRaises
    /\ Len(queries) >= 3
    /\ queries[1] # prompt

HasOpen == \E i \in 1..Len(response) : response[i] = OPEN
HasClose == \E i \in 1..Len(response) : response[i] = CLOSE

\* C6 as stated: the parser fails whenever the opening tag or the closing
\* tag is absent from the model response.
C6_Original ==
    (qpc = "done" /\ ~callRaises /\ (~HasOpen \/ ~HasClose)) =>
        (parseRaised /\ queries = <<prompt>>)

\* C6 amended: the parser fails, and no parsed query reaches the query list,
\* exactly when the opening tag is absent; a response with the opening tag
\* and no closing tag parses (what follows the opening tag is the query text).
C6_FailsIffOpenTagAbsent ==
    (qpc = "done" /\ ~callRaises) =>
        /\ ~HasOpen => (parseRaised /\ queries = <<prompt>>)
        /\ HasOpen => ~parseRaised

C6_Witness ==
    /\ qpc = "done"
    /\ ~callRaises
    /\ HasOpen
    /\ ~HasClose
    /\ ~parseRaised
    /\ Len(queries) >= 2

\* The text the parser reads: after the first opening tag, up to the next
\* opening tag, the first closing tag or the end.
QueryRegion ==
    LET i == CHOOSE k \in 1..Len(response) :
                 response[k] = OPEN /\ \A j \in 1..(k - 1) : response[j] # OPEN
        rest == SubSeq(response, i + 1, Len(response))
        stops == { k \in 1..Len(rest) : rest[k] \in {OPEN, CLOSE} }
        end == IF stops = {} THEN Len(rest)
               ELSE (CHOOSE k \in stops : \A j \in stops : k <= j) - 1
    IN  SubSeq(rest, 1, end)

\* The number of lines of the region that hold something other than blanks:
\* the positions that are the first non-blank token of their line.
NonBlankLines ==
    LET r == QueryRegion
    IN  Cardinality(
            { k \in 1..Len(r) :
                /\ r[k] \notin {NL, " "}
                /\ \A j \in 1..(k - 1) :
                      (\A m \in j..(k - 1) : r[m] # NL) => r[j] = " " })

\* C7 as stated: the query set has at most 2N + 1 elements.
C7_Original ==
    (qpc = "done" /\ ~callRaises /\ ~parseRaised) =>
        Len(queries) <= 2 * num_queries + 1

\* C7 amended: with L the number of non-blank lines between the tags, the
\* query set has L + 1 elements, except N + 1 when L = 2N; so it has at most
\* 2N + 1 elements only when L <= 2N, and more when the model emits more lines.
C7_LengthFollowsLineCount ==
    (qpc = "done" /\ ~callRaises /\ ~parseRaised) =>
        Len(queries) =
            (IF NonBlankLines = 2 * num_queries THEN num_queries
             ELSE NonBlankLines) + 1

C7_Witness ==
    /\ qpc = "done"
    /\ ~callRaises
    /\ ~parseRaised
    /\ Len(queries) > 2 * num_queries + 1

----------------------------------------------------------------------------
(* Claims about select_docs, under SpecSelect *)

\* The argument document a returned document comes from.
InDoc(d) == CHOOSE e \in Range(sel_in) : e.url = d.url

Omitted == { e \in Range(sel_in) : \A d \in Range(sel_out) : d.url # e.url }

\* C3: select_docs returns at most 4 documents, each of at least 60 words
\* on input and at most 10,000 words on output: a document of more than
\* 10,000 words is cut to its first 10,000 words joined by single spaces,
\* any other returned document has its text unchanged.
C3_AtMostFourBoundedDocs ==
    spc = "done" =>
        /\ Len(sel_out) <= 4
        /\ \A d \in Range(sel_out) :
              /\ \E e \in Range(sel_in) : e.url = d.url
              /\ InDoc(d).text.words >= 60
              /\ d.text.words <= 10000
              /\ InDoc(d).text.words > 10000 => d.text = Text(10000, TRUE)
              /\ InDoc(d).text.words <= 10000 => d.text = InDoc(d).text

C3_Witness ==
    /\ spc = "done"
    /\ Len(sel_out) = 4
    /\ \E d \in Range(sel_out) : InDoc(d).text.words > 10000
    /\ \E d \in Range(sel_out) : InDoc(d).text = Text(500, FALSE)
    /\ \E e \in Omitted : e.text.words < 60

\* C4: if a document of at least 60 words is not returned, exactly 4
\* documents are returned and each has at least as many words (on input) as
\* the omitted one.
C4_PrefersHigherWordCounts ==
    spc = "done" =>
        \A e \in Omitted :
            e.text.words >= 60 =>
                /\ Len(sel_out) = 4
                /\ \A d \in Range(sel_out) :
                      InDoc(d).text.words >= e.text.words

C4_Witness ==
    /\ spc = "done"
    /\ \E e \in Omitted : e.text.words = 500
    /\ \E d \in Range(sel_out) : InDoc(d).text.words = 5000

\* C10 as stated: the returned list is in non-increasing order of input
\* word count.
C10_Original ==
    spc = "done" =>
        \A i, j \in 1..Len(sel_out) :
            i < j => InDoc(sel_out[i]).text.words >= InDoc(sel_out[j]).text.words

\* Position of a returned document in the argument list.
InPos(d) == CHOOSE i \in 1..Len(sel_in) : sel_in[i].url = d.url

\* C10 amended: the returned list keeps the relative order of the argument
\* list (the accepted documents appear as they are ordered in the input),
\* not the order of acceptance.
C10_KeepsInputOrder ==
    spc = "done" =>
        \A i, j \in 1..Len(sel_out) :
            i < j => InPos(sel_out[i]) < InPos(sel_out[j])

C10_Witness ==
    /\ spc = "done"
    /\ Len(sel_out) >= 2
    /\ InDoc(sel_out[1]).text.words < InDoc(sel_out[2]).text.words

----------------------------------------------------------------------------
(* Claims about acquisition, under SpecFetch *)

\* C2 as stated: no per-item failure makes fetch_additional_information
\* raise, on the search-and-fetch path and on the source-map path alike.
C2_NeverRaises == fpc # "raised"

\* C5 as stated: a url is given up as unfetchable only after
\* HTTP_MAX_RETIES requests for it have failed, a failed request being
\* followed by another one while the budget lasts.
C5_RetriedUpToBudget ==
    \A u \in 1..MaxUrls : fut[u] = "failed" => nreq[u] = HTTP_MAX_RETIES

\* C8: every object handed to select_docs is a Document whose text is a
\* non-empty string, whatever the fetches and extractions did; a url whose
\* fetch raised contributes nothing.
C8_SelectionInputIsDocuments ==
    fpc = "done" =>
        \A d \in Range(filtered_docs) :
            /\ d.kind = "Document"
            /\ "text" \in DOMAIN d
            /\ d.text # EmptyText
            /\ d.text.words \in Nat
            /\ source_links = <<>> => fut[d.url] = "consumed"

C8_Witness ==
    /\ fpc = "done"
    /\ \E d \in Range(docs) : d.kind = "ValueError"
    /\ \E d \in Range(docs) : d.kind = "Document" /\ d.text = EmptyText
    /\ \E u \in 1..MaxUrls : fut[u] = "failed"
    /\ Len(filtered_docs) >= 2
    /\ Len(filtered_docs) < Len(docs)

\* Requests in flight: the futures not yet done, and the PDF download the
\* main thread is waiting for.
InFlight ==
    Cardinality({ u \in 1..MaxUrls : fut[u] = "inflight" })
        + (IF fpc = "pdf" THEN 1 ELSE 0)

\* C9: no request of a later batch is submitted before every future of the
\* earlier batches has completed and been collected, so at most Window
\* requests are in flight at any time.
C9_BatchesAreBarriers ==
    /\ InFlight <= Window
    /\ \A i, j \in 1..Len(urls) :
          (BatchOf(i) < BatchOf(j) /\ fut[urls[j]] # "none")
              => fut[urls[i]] \in {"consumed", "failed"}

C9_Witness ==
    /\ Len(urls) > Window
    /\ fut[urls[Window + 1]] = "inflight"
    /\ \E i \in 1..Window : fut[urls[i]] = "failed"
    /\ \E i \in 1..Window : fut[urls[i]] = "consumed"

=============================================================================
